---- MODULE Spec2Model ----
(***************************************************************************)
(* Model of tap_exchangeratesapi/__init__.py: main, do_sync, request with  *)
(* its backoff decorator, giveup and parse_response.                       *)
(*                                                                         *)
(* A date string "YYYY-MM-DD" is the tuple <<y, m, d>>; a datetime is the  *)
(* tuple <<y, m, d, H, M, S>>.  A Python dict is a function whose DOMAIN   *)
(* is its key set.  An absent value (None, missing file) is <<>>.          *)
(***************************************************************************)
EXTENDS Integers, Sequences, FiniteSets, TLC

\* ---------------------------------------------------------------- bounds
NumDates == 3
MaxRuns == 2

\* ------------------------------------------------------- program constants
MaxTries == 5

None == <<>>

\* ------------------------------------------------------------ calendar
IsLeap(y) == (y % 4 = 0 /\ y % 100 # 0) \/ y % 400 = 0

DaysInMonth(y, m) ==
    IF m = 2 THEN (IF IsLeap(y) THEN 29 ELSE 28)
    ELSE IF m \in {4, 6, 9, 11} THEN 30 ELSE 31

\* datetime.strptime(s, DATE_FORMAT): a date string to a datetime at midnight
strptime(s) == <<s[1], s[2], s[3], 0, 0, 0>>

\* datetime.strftime(DATE_FORMAT): the date part of a datetime
strftime(dt) == <<dt[1], dt[2], dt[3]>>

\* dt + timedelta(days=1)
AddOneDay(dt) ==
    IF dt[3] < DaysInMonth(dt[1], dt[2])
    THEN [dt EXCEPT ![3] = dt[3] + 1]
    ELSE IF dt[2] < 12
         THEN [dt EXCEPT ![2] = dt[2] + 1, ![3] = 1]
         ELSE [dt EXCEPT ![1] = dt[1] + 1, ![2] = 1, ![3] = 1]

\* datetime <= datetime: lexicographic on the six fields
RECURSIVE LexLE(_, _, _)
LexLE(a, b, i) ==
    IF i > Len(a) THEN TRUE
    ELSE IF a[i] < b[i] THEN TRUE
    ELSE IF a[i] > b[i] THEN FALSE
    ELSE LexLE(a, b, i + 1)

DatetimeLE(a, b) == LexLE(a, b, 1)

\* next_date = (strptime(next_date) + timedelta(days=1)).strftime(DATE_FORMAT)
NextDate(s) == strftime(AddOneDay(strptime(s)))

\* time.strftime("%Y-%m-%dT%H:%M:%SZ", time.strptime(s, DATE_FORMAT))
FormatTimestamp(s) == strptime(s)

\* ------------------------------------------------------------ input sets
FirstDate == <<2024, 2, 28>>

RECURSIVE DateWindow(_, _)
DateWindow(d, n) == IF n = 0 THEN {} ELSE {d} \cup DateWindow(NextDate(d), n - 1)

Dates == DateWindow(FirstDate, NumDates)

\* the day before FirstDate: what the API reports for a day without data
StaleDate == <<2024, 2, 27>>

TimesOfDay == {<<13, 30, 0>>}

Currencies == {"EUR", "USD"}
Bases == {"USD"}
\* rates in tenths: 0.9, and the 1.0 parse_response assigns to the base
RateValues == {9}
One == 10

Statuses == {404, 429, 503}

\* ------------------------------------------------------------ dicts
DictSet(f, k, v) == [x \in (DOMAIN f) \cup {k} |-> IF x = k THEN v ELSE f[x]]

EmptyDict == [x \in {} |-> x]

Get(f, k) == IF k \in DOMAIN f THEN f[k] ELSE None

\* the operands of `or` taken in the opposite order
OrSecondFirst(a, b) == IF b = None THEN a ELSE b

\* Python's `a or b` on strings: an absent or empty value is falsy
Or(a, b) == IF a = None THEN b ELSE a

Last(o) == o[Len(o)]

Drop(f, k) == [x \in (DOMAIN f) \ {k} |-> f[x]]

\* ------------------------------------------------------------ inputs
\* --state file contents: {} or {"start_date": "YYYY-MM-DD"}
StateFiles == {EmptyDict} \cup {[start_date |-> d] : d \in Dates}

\* --config file contents: access_key, and optionally an ISO start_date
Configs ==
    {[access_key |-> "key"]}
    \cup {[access_key |-> "key", start_date |-> strptime(FirstDate)]}

Nows == {<<d[1], d[2], d[3], t[1], t[2], t[3]>> : d \in Dates, t \in TimesOfDay}

\* the rates of a response: at least one currency
RatesDicts == UNION {[S -> RateValues] : S \in (SUBSET Currencies) \ {{}}}

\* response.json() of a 2xx response to GET base_url + d
FullPayloads(d) ==
    {[base |-> b, date |-> dt, rates |-> r] :
        b \in Bases, dt \in {d, StaleDate}, r \in RatesDicts}

Payloads(d) ==
    FullPayloads(d)
    \cup {Drop(p, k) : p \in FullPayloads(d), k \in {"base", "date", "rates"}}

\* ------------------------------------------------------------ parse_response
\* a base rate filled in only when the rates lack one
parse_responseKeepRate(r) ==
    LET f1 == IF r["base"] \in DOMAIN r["rates"] THEN r["rates"]
              ELSE DictSet(r["rates"], r["base"], One)
        f2 == DictSet(f1, "base", r["base"])
    IN  DictSet(f2, "date", FormatTimestamp(r["date"]))

parse_response(r) ==
    LET f1 == DictSet(r["rates"], r["base"], One)
        f2 == DictSet(f1, "base", r["base"])
    IN  DictSet(f2, "date", FormatTimestamp(r["date"]))

\* ------------------------------------------------------------ schema
InitialSchema ==
    [type |-> "object",
     properties |-> [date |-> [type |-> "string", format |-> "date-time"],
                     base |-> [type |-> "string"]]]

CurrencyField == [type |-> <<"null", "number">>]

\* a schema rebuilt from the day's rates instead of extended by them
UpdateSchemaReplace(s, rates) ==
    [s EXCEPT !.properties =
        [k \in {"date", "base"} \cup (DOMAIN rates) |->
            IF k \in DOMAIN s.properties THEN s.properties[k]
            ELSE CurrencyField]]

\* for rate in payload["rates"]: if rate not in schema["properties"]: add it
UpdateSchema(s, rates) ==
    [s EXCEPT !.properties =
        [k \in (DOMAIN s.properties) \cup (DOMAIN rates) |->
            IF k \in DOMAIN s.properties THEN s.properties[k]
            ELSE CurrencyField]]

\* an empty snapshot taken as nothing to compare with
SchemaChangedSinceSnapshot(s, prev) == prev # EmptyDict /\ s # prev

\* a schema written only while no snapshot has been taken yet
SchemaChangedFirstOnly(s, prev) == prev = EmptyDict

\* schema != prev_schema
SchemaChanged(s, prev) == s # prev

\* a date check that only looks for the key
DateMatchesAnyDate(p, d) == "date" \in DOMAIN p

\* payload["date"] == next_date
DateMatches(p, d) == p["date"] = d

\* ------------------------------------------------------------ messages
SchemaMsg(s) ==
    [kind |-> "SCHEMA", stream |-> "exchange_rate", schema |-> s,
     key_properties |-> "date"]

RecordMsg(r) == [kind |-> "RECORD", stream |-> "exchange_rate", record |-> r]

StateMsg(st) == [kind |-> "STATE", value |-> st]

\* a state written a second time
WriteStateTwice(o, st) == Append(Append(o, StateMsg(st)), StateMsg(st))

\* singer.write_state(state)
WriteState(o, st) == Append(o, StateMsg(st))

\* ------------------------------------------------------------ giveup
\* `and` in place of `or`: no status is both 429 and >= 500
giveupAnd(status) == ~(status = 429 /\ status >= 500)

giveup(status) == ~(status = 429 \/ status >= 500)

\* a retry loop without max_tries
GivesUpNoBudget(status, n) == giveup(status)

\* a budget that is one attempt short
GivesUpOneShort(status, n) == giveup(status) \/ n >= MaxTries - 1

\* backoff.on_exception: give up when giveup(e) or tries == max_tries
GivesUp(status, n) == giveup(status) \/ n = MaxTries

\* ------------------------------------------------------------ state
VARIABLES
    run,          \* ordinal of the current process
    stateFile,    \* contents of the --state file ({} when not given)
    config,       \* contents of the --config file
    utcnow,       \* datetime.utcnow() during the current process
    pc,           \* "main", "while", "request", "done", "fatal"
    state,        \* do_sync: state
    next_date,    \* do_sync: next_date
    prev_schema,  \* do_sync: prev_schema
    schema,       \* module global schema
    tries,        \* HTTP GETs issued by the current call of request
    lastStatus,   \* status of the latest of them (0: no response received)
    out,          \* messages written to stdout by the current process
    prevOut,      \* "date" of each RECORD the previous process wrote
    requested,    \* days do_sync has called request for, in order
    iterations,   \* loop iterations of do_sync that ran to their end
    error,        \* which except clause of do_sync ran ("" when none)
    exitCode      \* <<>> while running, <<code>> after exit

vars == <<run, stateFile, config, utcnow, pc, state, next_date, prev_schema,
          schema, tries, lastStatus, out, prevOut, requested,
          iterations, error, exitCode>>

inputs == <<run, stateFile, config, utcnow, prevOut>>

Init ==
    /\ run = 1
    /\ stateFile \in StateFiles
    /\ config \in Configs
    /\ utcnow \in Nows
    /\ pc = "main"
    /\ state = EmptyDict
    /\ next_date = None
    /\ prev_schema = EmptyDict
    /\ schema = InitialSchema
    /\ tries = 0
    /\ out = <<>>
    /\ prevOut = <<>>
    /\ lastStatus = 0
    /\ requested = <<>>
    /\ iterations = 0
    /\ error = ""
    /\ exitCode = <<>>

\* singer.utils.strptime_with_tz(s).date().strftime(DATE_FORMAT)
NormalizeStart(s) == strftime(IF Len(s) = 3 THEN strptime(s) ELSE s)

EffectiveStart(sf, cf, now) ==
    NormalizeStart(Or(Get(sf, "start_date"),
                      Or(Get(cf, "start_date"), strftime(now))))

\* main up to the call of do_sync, and do_sync up to its loop
Main ==
    /\ pc = "main"
    /\ LET start_date == EffectiveStart(stateFile, config, utcnow)
       IN  /\ state' = [start_date |-> start_date]
           /\ next_date' = start_date
    /\ prev_schema' = EmptyDict
    /\ pc' = "while"
    /\ UNCHANGED <<inputs, schema, tries, lastStatus, out, requested,
                   iterations, error, exitCode>>

\* a loop whose body runs once before the condition is looked at
WhileEnterFirstUnchecked ==
    /\ pc = "while"
    /\ IF iterations = 0 THEN requested = <<>>
       ELSE DatetimeLE(strptime(next_date), utcnow)
    /\ requested' = Append(requested, next_date)
    /\ tries' = 0
    /\ lastStatus' = 0
    /\ pc' = "request"
    /\ UNCHANGED <<inputs, state, next_date, prev_schema, schema, out,
                   iterations, error, exitCode>>

\* while strptime(next_date) <= utcnow(): enter the body, call request
WhileEnter ==
    /\ pc = "while"
    /\ DatetimeLE(strptime(next_date), utcnow)
    /\ requested' = Append(requested, next_date)
    /\ tries' = 0
    /\ lastStatus' = 0
    /\ pc' = "request"
    /\ UNCHANGED <<inputs, state, next_date, prev_schema, schema, out,
                   iterations, error, exitCode>>

\* the loop condition is false: write_state, "Tap exiting normally"
WhileExit ==
    /\ pc = "while"
    /\ ~DatetimeLE(strptime(next_date), utcnow)
    /\ out' = WriteState(out, state)
    /\ pc' = "done"
    /\ exitCode' = <<0>>
    /\ UNCHANGED <<inputs, state, next_date, prev_schema, schema, tries,
                   lastStatus, requested, iterations, error>>

\* an except clause that logs the error and leaves with status 0
FatalExitZero(kind) ==
    /\ pc' = "fatal"
    /\ error' = kind
    /\ exitCode' = <<0>>

\* sys.exit(-1) in an except clause of do_sync: the process ends with status
\* 255 and the write_state after the try statement is not reached
Fatal(kind) ==
    /\ pc' = "fatal"
    /\ error' = kind
    /\ exitCode' = <<255>>

\* one call of requests.get inside the retry loop of backoff.on_exception
Attempt(status) ==
    /\ tries' = tries + 1
    /\ lastStatus' = status

\* an attempt gets an error status and backoff sleeps before the next one
RequestRetry(status) ==
    /\ pc = "request"
    /\ ~GivesUp(status, tries + 1)
    /\ Attempt(status)
    /\ UNCHANGED <<inputs, pc, state, next_date, prev_schema, schema, out,
                   requested, iterations, error, exitCode>>

\* an attempt gets an error status and backoff re-raises the HTTPError
RequestGiveup(status) ==
    /\ pc = "request"
    /\ GivesUp(status, tries + 1)
    /\ Attempt(status)
    /\ Fatal("RequestException")
    /\ UNCHANGED <<inputs, state, next_date, prev_schema, schema, out,
                   requested, iterations>>

\* an attempt fails without a response: giveup reads error.response.text of
\* None, the AttributeError leaves request and reaches `except Exception`
RequestNoResponse ==
    /\ pc = "request"
    /\ Attempt(0)
    /\ Fatal("Exception")
    /\ UNCHANGED <<inputs, state, next_date, prev_schema, schema, out,
                   requested, iterations>>

\* a cursor moved on by two days
AdvanceTwoDays(s) ==
    /\ state' = [start_date |-> next_date]
    /\ next_date' = NextDate(NextDate(next_date))
    /\ prev_schema' = s
    /\ iterations' = iterations + 1
    /\ pc' = "while"
    /\ UNCHANGED <<error, exitCode>>

\* state = {"start_date": next_date}; next_date += 1 day; prev_schema = copy
Advance(s) ==
    /\ state' = [start_date |-> next_date]
    /\ next_date' = NextDate(next_date)
    /\ prev_schema' = s
    /\ iterations' = iterations + 1
    /\ pc' = "while"
    /\ UNCHANGED <<error, exitCode>>

\* a cursor moved on before the body has run to its end
KeyErrorAfterAdvance ==
    /\ Fatal("KeyError")
    /\ next_date' = NextDate(next_date)
    /\ UNCHANGED <<state, prev_schema, iterations>>

\* except KeyError: nothing of the iteration's last three statements has run
KeyError ==
    /\ Fatal("KeyError")
    /\ UNCHANGED <<state, next_date, prev_schema, iterations>>

\* an attempt succeeds with payload p: the rest of the loop body
Iterate(p) ==
    /\ pc = "request"
    /\ Attempt(200)
    /\ UNCHANGED <<inputs, requested>>
    /\ IF "rates" \notin DOMAIN p
       THEN KeyError /\ UNCHANGED <<schema, out>>
       ELSE LET s1 == UpdateSchema(schema, p["rates"])
                o1 == IF SchemaChanged(s1, prev_schema)
                      THEN Append(out, SchemaMsg(s1)) ELSE out
            IN  /\ schema' = s1
                /\ IF "date" \notin DOMAIN p
                   THEN KeyError /\ out' = o1
                   ELSE IF DateMatches(p, next_date)
                   THEN IF "base" \notin DOMAIN p
                        THEN KeyError /\ out' = o1
                        ELSE /\ out' = Append(o1, RecordMsg(parse_response(p)))
                             /\ Advance(s1)
                   ELSE out' = o1 /\ Advance(s1)

\* the STATE message of the finished process, if it wrote one
EmittedState(o) ==
    IF o # <<>> /\ o[Len(o)].kind = "STATE" THEN o[Len(o)].value ELSE None

\* the "date" fields of the RECORD messages of a stdout, in order
RECURSIVE RecordDates(_)
RecordDates(o) ==
    IF o = <<>> THEN <<>>
    ELSE (IF Head(o).kind = "RECORD" THEN <<Head(o).record["date"]>> ELSE <<>>)
         \o RecordDates(Tail(o))

\* the next process: started from the STATE the previous one wrote when it
\* exited normally, at the same or a later time
Restart(now) ==
    /\ pc = "done"
    /\ run < MaxRuns
    /\ DatetimeLE(utcnow, now)
    /\ run' = run + 1
    /\ stateFile' = EmittedState(out)
    /\ utcnow' = now
    /\ prevOut' = RecordDates(out)
    /\ out' = <<>>
    /\ pc' = "main"
    /\ state' = EmptyDict
    /\ next_date' = None
    /\ prev_schema' = EmptyDict
    /\ schema' = InitialSchema
    /\ tries' = 0
    /\ lastStatus' = 0
    /\ requested' = <<>>
    /\ iterations' = 0
    /\ error' = ""
    /\ exitCode' = <<>>
    /\ UNCHANGED config

Next ==
    \/ Main
    \/ WhileEnter
    \/ WhileExit
    \/ \E status \in Statuses : RequestRetry(status)
    \/ \E status \in Statuses : RequestGiveup(status)
    \/ RequestNoResponse
    \/ \E p \in Payloads(next_date) : Iterate(p)
    \/ \E now \in Nows : Restart(now)

Spec == Init /\ [][Next]_vars

\* the process is sequential and always takes its next step
FairSpec == Spec /\ WF_vars(Next)

\* ------------------------------------------------------------ properties
Range(o) == {o[i] : i \in DOMAIN o}

Fields(s) == DOMAIN s.properties

CountKind(o, k) == Cardinality({i \in DOMAIN o : o[i].kind = k})

\* the messages a step appends to stdout are out'[i] for i in Appended
Appended == (Len(out) + 1)..Len(out')

WellFormed(p) == {"base", "date", "rates"} \subseteq DOMAIN p

\* C1: when an iteration ends in a fatal error the process has still written
\* a STATE message, and its start_date is the cursor the failing iteration
\* began with.
C1_FatalFlushesCursor ==
    pc = "fatal" =>
        /\ out # <<>>
        /\ Last(out).kind = "STATE"
        /\ Last(out).value = [start_date |-> next_date]

\* C2: a process started from the STATE its predecessor wrote emits no
\* RECORD for a day its predecessor emitted one for, and none twice itself.
C2_NoDayEmittedTwice ==
    run > 1 =>
        \A i \in DOMAIN out :
            out[i].kind = "RECORD" =>
                /\ out[i].record["date"] \notin Range(prevOut)
                /\ \A j \in DOMAIN out :
                       (j # i /\ out[j].kind = "RECORD")
                           => out[j].record["date"] # out[i].record["date"]

\* C3: after a normal run of at least one iteration the STATE message holds
\* the day after the last day processed.
C3_FinalStateIsAdvancedCursor ==
    (pc = "done" /\ iterations >= 1) =>
        Last(out).value = [start_date |-> NextDate(Last(requested))]

\* C4: a run that completes normally has written exactly one STATE message,
\* as its last message; no STATE message is written while the loop runs.
C4_OneStateAtEnd ==
    /\ pc = "done" =>
           /\ CountKind(out, "STATE") = 1
           /\ Last(out).kind = "STATE"
    /\ pc \in {"main", "while", "request"} => CountKind(out, "STATE") = 0

C4_Witness ==
    /\ pc = "done"
    /\ CountKind(out, "SCHEMA") >= 1
    /\ CountKind(out, "RECORD") >= 2

\* C5: every completed iteration, the first included, moves the start_date
\* of SyncState forward by exactly one day, and it never moves backward.
C5_StateAdvancesEachIteration ==
    [][/\ iterations' = iterations + 1
           => state'["start_date"] = NextDate(state["start_date"])
       /\ (run' = run /\ pc # "main")
           => DatetimeLE(state["start_date"], state'["start_date"])]_vars

\* C6: when the fetch of day D returns a well-formed payload, a RECORD (for D)
\* is written if and only if the payload's date is D; in both cases no error
\* is raised and the cursor becomes D + 1.
C6_DateMatchGating ==
    [][pc = "request" =>
       \A p \in FullPayloads(next_date) :
          (Iterate(p) /\ WellFormed(p)) =>
              /\ (\E i \in Appended : out'[i].kind = "RECORD")
                     <=> (p["date"] = next_date)
              /\ \A i \in Appended :
                     out'[i].kind = "RECORD"
                         => out'[i].record["date"] = FormatTimestamp(next_date)
              /\ pc' = "while"
              /\ error' = ""
              /\ next_date' = NextDate(next_date)]_vars

\* two days were processed, the first one skipped and the second one emitted
C6_Witness ==
    /\ pc = "while"
    /\ iterations = 2
    /\ CountKind(out, "RECORD") = 1
    /\ Last(out).kind = "RECORD"
    /\ Last(out).record["date"] = FormatTimestamp(Last(requested))

\* C7: the fields of the schema include every key of every RECORD written so
\* far, the injected base currency key included.
C7_SchemaCoversRecords ==
    \A i \in DOMAIN out :
        out[i].kind = "RECORD" => DOMAIN out[i].record \subseteq Fields(schema)

\* C8: a SCHEMA message is written in the first completed iteration, and in a
\* later one if and only if the schema's fields after the day's update differ
\* from its fields at the end of the iteration before.
C8_SchemaEmittedOnChange ==
    [][(pc = "request" /\ pc' = "while") =>
          ((\E i \in Appended : out'[i].kind = "SCHEMA")
              <=> (iterations = 0 \/ Fields(schema') # Fields(schema)))]_vars

\* three days processed; the schema was written again once and kept once
C8_Witness ==
    /\ iterations = 3
    /\ CountKind(out, "SCHEMA") = 2

\* C9: the schema's fields only grow from one day to the next, and the fixed
\* fields date and base are always among them.
C9_SchemaOnlyGrows ==
    /\ []({"date", "base"} \subseteq Fields(schema))
    /\ [][run' = run => Fields(schema) \subseteq Fields(schema')]_vars

\* a currency was added by an earlier day and a different one by a later day
C9_Witness ==
    /\ iterations >= 2
    /\ CountKind(out, "SCHEMA") >= 2
    /\ Currencies \subseteq Fields(schema)

\* C10: a 429 or 5xx response is followed by another attempt until 5 attempts
\* have been made, and then the error reaches do_sync; any other error status
\* reaches do_sync at once, so a first such response leaves one attempt made.
C10_RetryGiveupBoundary ==
    /\ tries <= 5
    /\ (pc = "request" /\ tries > 0)
           => ((lastStatus = 429 \/ lastStatus >= 500) /\ tries < 5)
    /\ (tries > 0 /\ tries < 5 /\ (lastStatus = 429 \/ lastStatus >= 500))
           => pc = "request"
    /\ (tries = 5 /\ (lastStatus = 429 \/ lastStatus >= 500))
           => (pc = "fatal" /\ error = "RequestException")
    /\ (tries > 0 /\ lastStatus >= 400 /\ lastStatus # 429 /\ lastStatus < 500)
           => (pc = "fatal" /\ error = "RequestException")

C10_Witness ==
    /\ pc = "fatal"
    /\ tries = 5
    /\ lastStatus = 429

\* C11: a failed attempt that carries no HTTP response is retried: while
\* fewer than 5 attempts have been made the call of request goes on, and the
\* run is not ended by the first such failure.
C11_NoResponseIsRetried ==
    (tries > 0 /\ tries < 5 /\ lastStatus = 0) => pc = "request"

C13_BaseRateIsOne ==
    [][pc = "request" =>
       \A p \in FullPayloads(next_date) :
          Iterate(p) =>
              \A i \in Appended :
                  out'[i].kind = "RECORD" =>
                      /\ out'[i].record[p["base"]] = One
                      /\ out'[i].record["base"] = p["base"]]_vars

\* the first day's rates had an entry for the base currency (it is a schema
\* field) and the day's RECORD was written
C13_Witness ==
    /\ iterations = 1
    /\ Last(out).kind = "RECORD"
    /\ Last(out).record["base"] \in Fields(schema)

\* C14: the run starts at the state file's start_date when it has one, else
\* at the config's start_date when it has one, else at the current UTC date;
\* in each case reduced to its calendar date.
C14_StartDatePrecedence ==
    [][pc = "main" /\ pc' = "while" =>
          /\ "start_date" \in DOMAIN stateFile
                 => next_date' = stateFile["start_date"]
          /\ ("start_date" \notin DOMAIN stateFile
                 /\ "start_date" \in DOMAIN config)
                 => next_date' = SubSeq(config["start_date"], 1, 3)
          /\ ("start_date" \notin DOMAIN stateFile
                 /\ "start_date" \notin DOMAIN config)
                 => next_date' = SubSeq(utcnow, 1, 3)
          /\ state' = [start_date |-> next_date']]_vars

\* state and config both name a start date, on different days, and the run
\* has started at the state's
C14_Witness ==
    /\ pc = "while"
    /\ requested = <<>>
    /\ "start_date" \in DOMAIN stateFile
    /\ "start_date" \in DOMAIN config
    /\ stateFile["start_date"] # SubSeq(config["start_date"], 1, 3)
    /\ stateFile["start_date"] # SubSeq(utcnow, 1, 3)
    /\ next_date = stateFile["start_date"]

\* C15: an iteration that ends in a fatal error leaves the cursor and the
\* in-memory state as they were when it began and writes no RECORD; the
\* cursor moves only in a step in which the day's RECORD is written or the
\* day is skipped for its date.
C15_DayIsAtomic ==
    /\ [][(pc = "request" /\ pc' # "while") =>
             /\ state' = state
             /\ next_date' = next_date
             /\ \A i \in Appended : out'[i].kind # "RECORD"]_vars
    /\ [][(pc # "main" /\ run' = run /\ next_date' # next_date) =>
             /\ pc = "request" /\ pc' = "while" /\ error' = ""
             /\ next_date' = NextDate(next_date)
             /\ \E p \in Payloads(next_date) :
                   /\ Iterate(p)
                   /\ "date" \in DOMAIN p
                   /\ (\E i \in Appended :
                          /\ out'[i].kind = "RECORD"
                          /\ out'[i].record["date"] = FormatTimestamp(next_date))
                      <=> p["date"] = next_date]_vars
    /\ [](pc = "fatal" =>
             /\ next_date = Last(requested)
             /\ \A i \in DOMAIN out :
                   out[i].kind = "RECORD"
                       => out[i].record["date"] # FormatTimestamp(next_date))

\* the second day failed on its payload after the first day was emitted
C15_Witness ==
    /\ pc = "fatal"
    /\ error = "KeyError"
    /\ iterations = 1
    /\ CountKind(out, "RECORD") = 1
    /\ state["start_date"] # next_date

\* C16: a fetch that fails with 429 or 5xx on fewer than 5 attempts is
\* attempted again, and when an attempt then succeeds the day is processed as
\* on a first attempt: SCHEMA on change, RECORD on a matching date, cursor
\* advanced, no error.
C16_RetryThenSuccess ==
    /\ [][(pc = "request" /\ tries' = tries + 1 /\ tries' < 5
             /\ (lastStatus' = 429 \/ lastStatus' >= 500))
             => (pc' = "request" /\ error' = "" /\ out' = out
                    /\ next_date' = next_date /\ state' = state)]_vars
    /\ [][(pc = "request" /\ tries > 0) =>
          \A p \in FullPayloads(next_date) :
             Iterate(p) =>
                /\ pc' = "while" /\ error' = "" /\ exitCode' = <<>>
                /\ next_date' = NextDate(next_date)
                /\ iterations' = iterations + 1
                /\ out' = out
                      \o (IF iterations = 0 \/ Fields(schema') # Fields(schema)
                          THEN <<SchemaMsg(schema')>> ELSE <<>>)
                      \o (IF p["date"] = next_date
                          THEN <<RecordMsg(parse_response(p))>> ELSE <<>>)
                /\ Fields(schema') = Fields(schema) \cup DOMAIN p["rates"]]_vars

\* four failed attempts, then a success whose RECORD was written
C16_Witness ==
    /\ pc = "while"
    /\ tries = 5
    /\ lastStatus = 200
    /\ iterations >= 1
    /\ Last(out).kind = "RECORD"

\* a date later than another, field by field
DateAfter(a, b) ==
    \/ a[1] > b[1]
    \/ (a[1] = b[1] /\ a[2] > b[2])
    \/ (a[1] = b[1] /\ a[2] = b[2] /\ a[3] > b[3])

\* C17: with the current UTC date fixed every run reaches a terminal state;
\* it ends normally exactly when the cursor is later than the current UTC
\* date; a fetch makes at most 5 attempts and a completed iteration moves the
\* cursor on by one day.
C17_RunTerminates ==
    /\ \A r \in 1..MaxRuns :
          (run = r) ~> (run = r /\ pc \in {"done", "fatal"})
    /\ [](tries <= 5)
    /\ [](pc = "done" => DateAfter(next_date, utcnow))
    /\ [][pc = "while" =>
             (pc' = "done" <=> DateAfter(next_date, utcnow))]_vars
    /\ [][iterations' = iterations + 1
             => next_date' = NextDate(next_date)]_vars

\* a run over all the days of the window has ended normally
C17_Witness ==
    /\ pc = "done"
    /\ iterations = NumDates

\* C18: the days requested in a run are consecutive from the start date, and
\* when the run completes normally from a start date not later than the
\* current UTC date the last one is the current UTC date.
C18_RequestedDaysAreTheRange ==
    /\ requested # <<>> =>
           requested[1] = EffectiveStart(stateFile, config, utcnow)
    /\ \A i \in 1..(Len(requested) - 1) :
           requested[i + 1] = NextDate(requested[i])
    /\ \A i \in DOMAIN requested : ~DateAfter(requested[i], utcnow)
    /\ (pc = "done"
           /\ ~DateAfter(EffectiveStart(stateFile, config, utcnow), utcnow))
           => Last(requested) = SubSeq(utcnow, 1, 3)

C18_Witness ==
    /\ pc = "done"
    /\ Len(requested) = 3
    /\ requested[3] = SubSeq(utcnow, 1, 3)

\* C19: every RECORD message has a SCHEMA message before it, and a SCHEMA
\* message written in an iteration comes before that iteration's RECORD.
C19_SchemaBeforeRecord ==
    /\ [](\A i \in DOMAIN out :
             out[i].kind = "RECORD" => \E j \in 1..(i - 1) : out[j].kind = "SCHEMA")
    /\ [][\A i \in Appended : \A j \in Appended :
             (out'[i].kind = "SCHEMA" /\ out'[j].kind = "RECORD") => i < j]_vars

\* a later iteration wrote a SCHEMA and then its RECORD
C19_Witness ==
    /\ iterations >= 2
    /\ Len(out) >= 4
    /\ Last(out).kind = "RECORD"
    /\ out[Len(out) - 1].kind = "SCHEMA"

\* C20: a run started with a start date later than the current UTC date
\* requests nothing, writes no SCHEMA or RECORD, and ends normally with one
\* STATE message that carries the start date.
C20_LateStartRunsNoIteration ==
    (pc # "main" /\ DateAfter(EffectiveStart(stateFile, config, utcnow), utcnow))
        => /\ requested = <<>>
           /\ tries = 0
           /\ pc \in {"while", "done"}
           /\ pc = "while" => out = <<>>
           /\ pc = "done" =>
                 /\ out = <<StateMsg([start_date |->
                                 EffectiveStart(stateFile, config, utcnow)])>>
                 /\ exitCode = <<0>>

C20_Witness ==
    /\ pc = "done"
    /\ iterations = 0
    /\ Len(out) = 1
    /\ DateAfter(state["start_date"], utcnow)

====
